---- MODULE Spec2Model ----
(***************************************************************************)
(* Request/notification dispatch and client channel of the Cairo language  *)
(* server:                                                                 *)
(*   crates/cairo-lang-language-server/src/server/api/mod.rs  (router)     *)
(*   crates/cairo-lang-language-server/src/server/client.rs   (client)     *)
(*                                                                         *)
(* Option<T> values are modelled as sequences: <<>> is None, <<v>> is      *)
(* Some(v).  Result<T, E> values are records with an `ok` field.           *)
(***************************************************************************)
EXTENDS Integers, Sequences, FiniteSets, TLC

VARIABLES
    connected,          \* the outbound channel behind ClientSender is open
    outbox,             \* messages sent on the outbound channel, in order
    next_request_id,    \* Requester.next_request_id
    response_handlers,  \* Requester.response_handlers : RequestId -> ResponseBuilder
    calls,              \* number of Requester::request calls made so far
    invoked,            \* how often the response_handler of each call has run
    pops,               \* number of Requester::pop_response_task calls so far
    sends,              \* number of Notifier::notify and direct Responder::respond calls
    lastCall,           \* the last Client call and what it returned
    tasks,              \* inbound requests routed so far and their Tasks
    state               \* live session state (a version number)

vars == <<connected, outbox, next_request_id, response_handlers, calls,
          invoked, pops, sends, lastCall, tasks, state>>

clientVars == <<next_request_id, response_handlers, calls, invoked, pops, sends,
                lastCall>>
routerVars == <<tasks, state>>

----------------------------------------------------------------------------
(* Bounds of the model.                                                    *)

MaxCalls == 3
MaxPops == 3
MaxInbound == 2
MaxSends == 1
MaxChannelCalls == 2
MaxChannelPops == 1

----------------------------------------------------------------------------
(* Option and Task values.                                                 *)

None == <<>>
Some(v) == <<v>>

Task_nothing == [kind |-> "Nothing"]
Task_immediate(id, result) == [kind |-> "Immediate", id |-> id, result |-> result]
Task_local(work) == [kind |-> "Local", work |-> work]
Task_background(schedule, work) ==
    [kind |-> "Background", schedule |-> schedule, work |-> work]

InternalError == -32603
RequestFailed == -32803

----------------------------------------------------------------------------
(* The outbound channel.                                                   *)

\* ClientSender::send: fails, sending nothing, once the channel is closed.
send(box, conn, message) ==
    IF conn THEN [ok |-> TRUE, outbox |-> Append(box, message)]
            ELSE [ok |-> FALSE, outbox |-> box]

\* lsp_server::Response::new_ok / new_err as built by Responder::respond.
Responder_message(id, result) ==
    IF result.ok
    THEN [type |-> "Response", id |-> id, result |-> Some(result.value), error |-> None]
    ELSE [type |-> "Response", id |-> id, result |-> None,
          error |-> Some([code |-> result.error.code, message |-> "cause"])]

\* Responder::respond: one send of the Response built from the outcome.
Responder_respond(box, conn, id, result) ==
    send(box, conn, Responder_message(id, result))

\* Notifier::notify that reports success whatever the send did.
Notifier_notify_swallow(box, conn, N) ==
    [ok |-> TRUE,
     outbox |-> send(box, conn, [type |-> "Notification", method |-> N]).outbox]

\* Notifier::notify::<N>: one send of the Notification, whose result is
\* returned to the caller.
Notifier_notify(box, conn, N) ==
    send(box, conn, [type |-> "Notification", method |-> N])

----------------------------------------------------------------------------
(* Requester (client.rs).                                                  *)

\* The server-issued request kinds R used by the model: one whose R::Result
\* is the unit type and one whose R::Result is a list.
OutboundRequests == {"client/registerCapability", "workspace/configuration"}

\* TypeId::of::<R::Result>() == TypeId::of::<()>()
ResultIsUnit(R) == R = "client/registerCapability"

\* JSON values a Response may carry as its result: each decodes into one of
\* the two result types and not into the other.
JsonValues == {"null", "array"}

\* serde_json::from_value::<R::Result>(value)
from_value(R, value) ==
    IF ResultIsUnit(R)
    THEN IF value = "null" THEN [ok |-> TRUE, value |-> "()"] ELSE [ok |-> FALSE]
    ELSE IF value = "array" THEN [ok |-> TRUE, value |-> "items"] ELSE [ok |-> FALSE]

\* response_handler(value): the Task the user continuation of call h.cont
\* produces, the follow-up work of that call for that value.
response_handler(h, value) ==
    Task_local(<<"continuation", h.cont, value>>)

Invocation(h, value) ==
    [cont |-> h.cont, arg |-> value, produced |-> response_handler(h, value)]

\* ResponseBuilder with the result looked at before the error.
ResponseBuilder_resultFirst(h, response) ==
    IF response.result # None
    THEN LET d == from_value(h.R, response.result[1])
         IN  IF d.ok
             THEN [task |-> response_handler(h, d.value),
                   invocations |-> <<Invocation(h, d.value)>>]
             ELSE [task |-> Task_nothing, invocations |-> <<>>]
    ELSE IF response.error # None
    THEN [task |-> Task_nothing, invocations |-> <<>>]
    ELSE IF ResultIsUnit(h.R)
    THEN [task |-> Task_nothing,
          invocations |-> <<Invocation(h, from_value(h.R, "null").value)>>]
    ELSE [task |-> Task_nothing, invocations |-> <<>>]

\* The ResponseBuilder closure registered by Requester::request.
ResponseBuilder(h, response) ==
    IF response.error # None
    THEN [task |-> Task_nothing, invocations |-> <<>>]
    ELSE IF response.result # None
    THEN LET d == from_value(h.R, response.result[1])
         IN  IF d.ok
             THEN [task |-> response_handler(h, d.value),
                   invocations |-> <<Invocation(h, d.value)>>]
             ELSE [task |-> Task_nothing, invocations |-> <<>>]
    ELSE IF ResultIsUnit(h.R)
    THEN [task |-> Task_nothing,
          invocations |-> <<Invocation(h, from_value(h.R, "null").value)>>]
    ELSE [task |-> Task_nothing, invocations |-> <<>>]

\* FxHashMap::insert
insert(map, key, value) ==
    [k \in DOMAIN map \cup {key} |-> IF k = key THEN value ELSE map[k]]

\* A lookup that leaves the entry in the map.
remove_keep(map, key) == map

\* FxHashMap::remove
remove(map, key) ==
    [k \in DOMAIN map \ {key} |-> map[k]]

\* A counter that is never advanced.
NextRequestId_stuck(n) == n

\* self.next_request_id += 1
NextRequestId(n) == n + 1

\* pop_response_task that forgets every pending handler on an unexpected id.
pop_response_task_reset(handlers, response) ==
    IF response.id \in DOMAIN handlers
    THEN LET r == ResponseBuilder(handlers[response.id], response)
         IN  [handlers |-> remove(handlers, response.id), found |-> TRUE,
              task |-> r.task, invocations |-> r.invocations]
    ELSE [handlers |-> <<>>, found |-> FALSE,
          task |-> Task_nothing, invocations |-> <<>>]

\* pop_response_task that answers the oldest pending request, whatever id
\* the Response carries.
pop_response_task_oldest(handlers, response) ==
    IF DOMAIN handlers # {}
    THEN LET id == CHOOSE k \in DOMAIN handlers : \A l \in DOMAIN handlers : k <= l
             r == ResponseBuilder(handlers[id], response)
         IN  [handlers |-> remove(handlers, id), found |-> TRUE,
              task |-> r.task, invocations |-> r.invocations]
    ELSE [handlers |-> handlers, found |-> FALSE,
          task |-> Task_nothing, invocations |-> <<>>]

\* Requester::pop_response_task as a function of the handler table.
pop_response_task(handlers, response) ==
    IF response.id \in DOMAIN handlers
    THEN LET r == ResponseBuilder(handlers[response.id], response)
         IN  [handlers |-> remove(handlers, response.id), found |-> TRUE,
              task |-> r.task, invocations |-> r.invocations]
    ELSE [handlers |-> handlers, found |-> FALSE,
          task |-> Task_nothing, invocations |-> <<>>]

\* Requester::request that runs the continuation as soon as the Request is sent.
Requester_request_eager(handlers, next, box, conn, R, serializes, h) ==
    IF ~serializes
    THEN [handlers |-> handlers, next |-> next, outbox |-> box, ret |-> "Err",
          invocations |-> <<>>]
    ELSE LET registered == insert(handlers, next, h)
             sent == send(box, conn, [type |-> "Request", id |-> next, method |-> R])
         IN  IF ~sent.ok
             THEN [handlers |-> registered, next |-> next, outbox |-> box,
                   ret |-> "Err", invocations |-> <<>>]
             ELSE [handlers |-> registered, next |-> NextRequestId(next),
                   outbox |-> sent.outbox, ret |-> "Ok",
                   invocations |-> <<Invocation(h, "()")>>]

\* Requester::request as a function of the Requester fields and the channel.
\* `serializes` is whether serde_json::to_value(params) succeeds; h is the
\* response_handler passed by the caller.
\* `invocations` are the calls of response_handler made during the call:
\* the closure is only stored, so there are none.
Requester_request(handlers, next, box, conn, R, serializes, h) ==
    IF ~serializes
    THEN [handlers |-> handlers, next |-> next, outbox |-> box, ret |-> "Err",
          invocations |-> <<>>]
    ELSE LET registered == insert(handlers, next, h)
             sent == send(box, conn, [type |-> "Request", id |-> next, method |-> R])
         IN  IF ~sent.ok
             THEN [handlers |-> registered, next |-> next, outbox |-> box,
                   ret |-> "Err", invocations |-> <<>>]
             ELSE [handlers |-> registered, next |-> NextRequestId(next),
                   outbox |-> sent.outbox, ret |-> "Ok", invocations |-> <<>>]

\* Inbound Responses the peer may send.
InboundResponses ==
    [id : 1..MaxCalls,
     result : {None} \cup {Some(v) : v \in JsonValues},
     error : {None, Some([code |-> RequestFailed, message |-> "peer"])}]

----------------------------------------------------------------------------
(* Router (api/mod.rs).                                                    *)

CodeActionRequest_METHOD == "textDocument/codeAction"
Completion_METHOD == "textDocument/completion"
ExecuteCommand_METHOD == "workspace/executeCommand"
ExpandMacro_METHOD == "cairo/expandMacro"
Formatting_METHOD == "textDocument/formatting"
GotoDefinition_METHOD == "textDocument/definition"
HoverRequest_METHOD == "textDocument/hover"
ProvideVirtualFile_METHOD == "vfs/provide"
SemanticTokensFullRequest_METHOD == "textDocument/semanticTokens/full"
ViewAnalyzedCrates_METHOD == "cairo/viewAnalyzedCrates"

\* The methods matched by the arms of `request`.
RequestMethods ==
    {CodeActionRequest_METHOD, Completion_METHOD, ExecuteCommand_METHOD,
     ExpandMacro_METHOD, Formatting_METHOD, GotoDefinition_METHOD,
     HoverRequest_METHOD, ProvideVirtualFile_METHOD,
     SemanticTokensFullRequest_METHOD, ViewAnalyzedCrates_METHOD}

\* Method names no arm of `request` matches: a registered name in another
\* case, a name matched only by `notification`, and a name nobody handles.
OtherMethods == {"textDocument/Hover", "textDocument/didOpen", "textDocument/rename"}

InboundMethods == RequestMethods \cup OtherMethods

\* Request.params either decodes into R::Params of the handler or does not.
InboundParams == {"wellformed", "malformed"}

\* LSPResultEx::with_failure_code / LSPError::new
with_failure_code(cause, code) == [code |-> code, error |-> cause]

\* cast_request with the failure code of another error class.
cast_request_invalidParams(R, request) ==
    IF request.method # R
    THEN [ok |-> FALSE, unreachable |-> TRUE]
    ELSE IF request.params = "malformed"
    THEN [ok |-> FALSE, unreachable |-> FALSE,
          error |-> with_failure_code("JSON parsing failure", -32602)]
    ELSE [ok |-> TRUE, id |-> request.id, params |-> request.params]

\* cast_request::<R>: Request::extract(R::METHOD) and the error mapping.
cast_request(R, request) ==
    IF request.method # R
    THEN [ok |-> FALSE, unreachable |-> TRUE]
    ELSE IF request.params = "malformed"
    THEN [ok |-> FALSE, unreachable |-> FALSE,
          error |-> with_failure_code("JSON parsing failure", InternalError)]
    ELSE [ok |-> TRUE, id |-> request.id, params |-> request.params]

\* local_request_task::<R>
local_request_task(R, request) ==
    LET c == cast_request(R, request)
    IN  IF c.ok
        THEN [ok |-> TRUE,
              task |-> Task_local([handler |-> R, id |-> c.id, params |-> c.params])]
        ELSE c

\* background_request_task that puts every handler on the Worker lane.
background_request_task_worker(R, request, schedule) ==
    LET c == cast_request(R, request)
    IN  IF c.ok
        THEN [ok |-> TRUE,
              task |-> Task_background("Worker",
                          [handler |-> R, id |-> c.id, params |-> c.params])]
        ELSE c

\* background_request_task::<R>
background_request_task(R, request, schedule) ==
    LET c == cast_request(R, request)
    IN  IF c.ok
        THEN [ok |-> TRUE,
              task |-> Task_background(schedule,
                          [handler |-> R, id |-> c.id, params |-> c.params])]
        ELSE c

\* `request` with a catch-all arm that answers instead of dropping.
request_fallback(r) ==
    IF r.method \in RequestMethods
    THEN LET routed == IF r.method = ExecuteCommand_METHOD
                       THEN local_request_task(r.method, r)
                       ELSE background_request_task(r.method, r, "Worker")
         IN  IF routed.ok THEN routed.task
             ELSE Task_immediate(r.id, [ok |-> FALSE, error |-> routed.error])
    ELSE Task_immediate(r.id,
            [ok |-> FALSE, error |-> with_failure_code("no handler", -32601)])

\* api::request: the routing table and the unwrap_or_else on a cast failure.
request(r) ==
    LET id == r.id
        method == r.method
        routed ==
          CASE method = CodeActionRequest_METHOD ->
                 background_request_task(CodeActionRequest_METHOD, r, "LatencySensitive")
            [] method = Completion_METHOD ->
                 background_request_task(Completion_METHOD, r, "LatencySensitive")
            [] method = ExecuteCommand_METHOD ->
                 local_request_task(ExecuteCommand_METHOD, r)
            [] method = ExpandMacro_METHOD ->
                 background_request_task(ExpandMacro_METHOD, r, "Worker")
            [] method = Formatting_METHOD ->
                 background_request_task(Formatting_METHOD, r, "Fmt")
            [] method = GotoDefinition_METHOD ->
                 background_request_task(GotoDefinition_METHOD, r, "LatencySensitive")
            [] method = HoverRequest_METHOD ->
                 background_request_task(HoverRequest_METHOD, r, "LatencySensitive")
            [] method = ProvideVirtualFile_METHOD ->
                 background_request_task(ProvideVirtualFile_METHOD, r, "LatencySensitive")
            [] method = SemanticTokensFullRequest_METHOD ->
                 background_request_task(SemanticTokensFullRequest_METHOD, r, "Worker")
            [] method = ViewAnalyzedCrates_METHOD ->
                 background_request_task(ViewAnalyzedCrates_METHOD, r, "Worker")
            [] OTHER -> [ok |-> TRUE, task |-> Task_nothing]
    IN  IF routed.ok
        THEN routed.task
        ELSE Task_immediate(id, [ok |-> FALSE, error |-> routed.error])

\* The METHOD constants of the notification kinds handled by notification.
Cancel_METHOD == "$/cancelRequest"
DidChangeTextDocument_METHOD == "textDocument/didChange"
DidChangeConfiguration_METHOD == "workspace/didChangeConfiguration"
DidChangeWatchedFiles_METHOD == "workspace/didChangeWatchedFiles"
DidCloseTextDocument_METHOD == "textDocument/didClose"
DidOpenTextDocument_METHOD == "textDocument/didOpen"
DidSaveTextDocument_METHOD == "textDocument/didSave"

NotificationMethods ==
    {Cancel_METHOD, DidChangeTextDocument_METHOD, DidChangeConfiguration_METHOD,
     DidChangeWatchedFiles_METHOD, DidCloseTextDocument_METHOD,
     DidOpenTextDocument_METHOD, DidSaveTextDocument_METHOD}

\* Notification methods without a handler: one unknown to the server and a
\* request method arriving as a Notification.
OtherNotifications == {"textDocument/willSave", "textDocument/hover"}

InboundNotifications == NotificationMethods \cup OtherNotifications

\* cast_notification::<N>: Notification::extract(N::METHOD) and the error
\* mapping; the id of the pair is N::METHOD.
cast_notification(N, n) ==
    IF n.method # N
    THEN [ok |-> FALSE, unreachable |-> TRUE]
    ELSE IF n.params = "malformed"
    THEN [ok |-> FALSE, unreachable |-> FALSE,
          error |-> with_failure_code("JSON parsing failure", InternalError)]
    ELSE [ok |-> TRUE, id |-> N, params |-> n.params]

\* local_notification_task::<N>
local_notification_task(N, n) ==
    LET c == cast_notification(N, n)
    IN  IF c.ok
        THEN [ok |-> TRUE,
              task |-> Task_local([handler |-> N, id |-> c.id, params |-> c.params])]
        ELSE c

\* notification answering a routing error the way request does.
notification_immediate(n) ==
    LET routed == IF n.method \in NotificationMethods
                  THEN local_notification_task(n.method, n)
                  ELSE [ok |-> TRUE, task |-> Task_nothing]
    IN  IF routed.ok
        THEN routed.task
        ELSE Task_immediate(n.method, [ok |-> FALSE, error |-> routed.error])

\* api::notification: the routing table of inbound Notifications.
notification(n) ==
    LET method == n.method
        routed ==
          CASE method = Cancel_METHOD ->
                 local_notification_task(Cancel_METHOD, n)
            [] method = DidChangeTextDocument_METHOD ->
                 local_notification_task(DidChangeTextDocument_METHOD, n)
            [] method = DidChangeConfiguration_METHOD ->
                 local_notification_task(DidChangeConfiguration_METHOD, n)
            [] method = DidChangeWatchedFiles_METHOD ->
                 local_notification_task(DidChangeWatchedFiles_METHOD, n)
            [] method = DidCloseTextDocument_METHOD ->
                 local_notification_task(DidCloseTextDocument_METHOD, n)
            [] method = DidOpenTextDocument_METHOD ->
                 local_notification_task(DidOpenTextDocument_METHOD, n)
            [] method = DidSaveTextDocument_METHOD ->
                 local_notification_task(DidSaveTextDocument_METHOD, n)
            [] OTHER -> [ok |-> TRUE, task |-> Task_nothing]
    IN  IF routed.ok
        THEN routed.task
        ELSE Task_nothing

\* What a handler's run / run_with_snapshot may do: return Ok, return Err
\* with a code of its own, or panic.
HandlerRuns ==
    {[panic |-> FALSE, result |-> [ok |-> TRUE, value |-> "result"]],
     [panic |-> FALSE,
      result |-> [ok |-> FALSE, error |-> with_failure_code("handler", RequestFailed)]],
     [panic |-> TRUE]}

\* Backend::catch_panics(...).and_then(|res| res): a panic becomes an
\* internal-error LSPError, any other outcome is passed through.
catch_panics(run) ==
    IF run.panic
    THEN [ok |-> FALSE, error |-> with_failure_code("caught panic", InternalError)]
    ELSE run.result

\* api::respond that answers only successful outcomes.
respond_okOnly(box, conn, id, result) ==
    IF result.ok
    THEN [calls |-> <<[id |-> id, result |-> result]>>,
          outbox |-> Responder_respond(box, conn, id, result).outbox]
    ELSE [calls |-> <<>>, outbox |-> box]

\* api::respond: log an Err, call Responder::respond once, log a failed send.
respond(box, conn, id, result) ==
    [calls |-> <<[id |-> id, result |-> result]>>,
     outbox |-> Responder_respond(box, conn, id, result).outbox]

----------------------------------------------------------------------------
(* Initial state: Client::new on an open channel, nothing routed yet.       *)

Init ==
    /\ connected = TRUE
    /\ outbox = <<>>
    /\ next_request_id = 1
    /\ response_handlers = <<>>
    /\ calls = 0
    /\ invoked = [c \in 1..MaxCalls |-> 0]
    /\ pops = 0
    /\ sends = 0
    /\ lastCall = [op |-> "new"]
    /\ tasks = <<>>
    /\ state = 0

----------------------------------------------------------------------------
(* Client channel operations.                                              *)

\* The peer goes away: every later send fails.
Close ==
    /\ connected
    /\ connected' = FALSE
    /\ UNCHANGED <<outbox, clientVars, routerVars>>

\* The invocation counts after the given response_handler calls.
Count(counts, invocations) ==
    [c \in DOMAIN counts |->
        counts[c] + Cardinality({i \in DOMAIN invocations : invocations[i].cont = c})]

\* A call of Requester::request::<R>(params, response_handler).
RequestCall(R, serializes) ==
    /\ calls' = calls + 1
    /\ LET h == [cont |-> calls + 1, R |-> R, id |-> next_request_id]
           r == Requester_request(response_handlers, next_request_id, outbox,
                                  connected, R, serializes, h)
       IN  /\ response_handlers' = r.handlers
           /\ next_request_id' = r.next
           /\ outbox' = r.outbox
           /\ invoked' = Count(invoked, r.invocations)
           /\ lastCall' = [op |-> "request", id |-> next_request_id, ret |-> r.ret]
    /\ UNCHANGED <<connected, pops, sends, routerVars>>

Request(R, serializes) ==
    /\ calls < MaxCalls
    /\ RequestCall(R, serializes)

\* A call of Requester::pop_response_task(response).
PopResponseCall(response) ==
    /\ pops' = pops + 1
    /\ LET r == pop_response_task(response_handlers, response)
       IN  /\ response_handlers' = r.handlers
           /\ invoked' = Count(invoked, r.invocations)
           /\ lastCall' = [op |-> "pop", response |-> response, found |-> r.found,
                           task |-> r.task, invocations |-> r.invocations]
    /\ UNCHANGED <<connected, outbox, next_request_id, calls, sends, routerVars>>

PopResponse(response) ==
    /\ pops < MaxPops
    /\ PopResponseCall(response)

\* The notification kind N used by the model.
OutboundNotification == "window/showMessage"

\* A call of Notifier::notify::<N>(params).
Notify ==
    /\ sends < MaxSends
    /\ sends' = sends + 1
    /\ LET r == Notifier_notify(outbox, connected, OutboundNotification)
       IN  /\ outbox' = r.outbox
           /\ lastCall' = [op |-> "notify", ret |-> IF r.ok THEN "Ok" ELSE "Err"]
    /\ UNCHANGED <<connected, next_request_id, response_handlers, calls, invoked,
                   pops, routerVars>>

\* A call of Responder::respond(id, result) by a Task holding the responder.
Respond(id, result) ==
    /\ sends < MaxSends
    /\ sends' = sends + 1
    /\ LET r == Responder_respond(outbox, connected, id, result)
       IN  /\ outbox' = r.outbox
           /\ lastCall' = [op |-> "respond", ret |-> IF r.ok THEN "Ok" ELSE "Err"]
    /\ UNCHANGED <<connected, next_request_id, response_handlers, calls, invoked,
                   pops, routerVars>>

----------------------------------------------------------------------------
(* Routing an inbound Request and executing its Task.                      *)

\* The session context dispatches the Task of one inbound message before it
\* reads the next message.
SessionIdle ==
    \A j \in DOMAIN tasks : tasks[j].phase # "routed"

\* Task i is the one the session context has to dispatch now.
SessionTurn(i) ==
    /\ i \in DOMAIN tasks
    /\ tasks[i].phase = "routed"

Finish(i, phase, run, responded) ==
    tasks' = [tasks EXCEPT ![i].phase = phase, ![i].run = run,
                           ![i].responded = responded]

\* An inbound Request is read and routed by api::request.
RouteRequest(method, params) ==
    /\ Len(tasks) < MaxInbound
    /\ SessionIdle
    /\ LET r == [id |-> Len(tasks) + 1, method |-> method, params |-> params]
       IN  tasks' = Append(tasks, [message |-> "Request",
                                   request |-> r, task |-> request(r),
                                   phase |-> "routed", run |-> None,
                                   snapshot |-> None, observed |-> None,
                                   responded |-> <<>>])
    /\ UNCHANGED <<connected, outbox, clientVars, state>>

\* Task::Nothing: no work.
ExecuteNothing(i) ==
    /\ SessionTurn(i)
    /\ tasks[i].task.kind = "Nothing"
    /\ Finish(i, "done", None, <<>>)
    /\ UNCHANGED <<connected, outbox, clientVars, state>>

\* Task::Immediate(id, result): the outcome is sent as a Response.
ExecuteImmediate(i) ==
    /\ SessionTurn(i)
    /\ tasks[i].task.kind = "Immediate"
    /\ LET t == tasks[i].task
           sent == Responder_respond(outbox, connected, t.id, t.result)
       IN  /\ outbox' = sent.outbox
           /\ Finish(i, "done", None, <<[id |-> t.id, result |-> t.result]>>)
    /\ UNCHANGED <<connected, clientVars, state>>

\* The closure of local_request_task on the session context: R::run, which
\* may write the session state, then respond.  A panic of R::run unwinds
\* out of the closure before respond is reached.
ExecuteLocal(i, run, writes) ==
    /\ SessionTurn(i)
    /\ tasks[i].message = "Request"
    /\ tasks[i].task.kind = "Local"
    /\ state' = IF writes THEN state + 1 ELSE state
    /\ IF run.panic
       THEN /\ Finish(i, "faulted", Some(run), <<>>)
            /\ UNCHANGED outbox
       ELSE LET r == respond(outbox, connected, tasks[i].task.work.id, run.result)
            IN  /\ outbox' = r.outbox
                /\ Finish(i, "done", Some(run), r.calls)
    /\ UNCHANGED <<connected, clientVars>>

\* First phase of the Background closure, on the session context:
\* state.snapshot().
SnapshotBackground(i) ==
    /\ SessionTurn(i)
    /\ tasks[i].task.kind = "Background"
    /\ tasks' = [tasks EXCEPT ![i].phase = "snapshotted", ![i].snapshot = Some(state)]
    /\ UNCHANGED <<connected, outbox, clientVars, state>>

\* The continuation with run_with_snapshot called outside catch_panics.
RunBackground_noCatch(i, run) ==
    /\ i \in DOMAIN tasks
    /\ tasks[i].phase = "snapshotted"
    /\ IF run.panic
       THEN /\ tasks' = [tasks EXCEPT ![i].phase = "faulted", ![i].run = Some(run),
                                      ![i].observed = tasks[i].snapshot]
            /\ UNCHANGED outbox
       ELSE LET r == respond(outbox, connected, tasks[i].task.work.id, run.result)
            IN  /\ outbox' = r.outbox
                /\ tasks' = [tasks EXCEPT ![i].phase = "done", ![i].run = Some(run),
                                          ![i].responded = r.calls,
                                          ![i].observed = tasks[i].snapshot]
    /\ UNCHANGED <<connected, clientVars, state>>

\* The continuation handed the live state instead of its snapshot.
RunBackground_liveState(i, run) ==
    /\ i \in DOMAIN tasks
    /\ tasks[i].phase = "snapshotted"
    /\ LET r == respond(outbox, connected, tasks[i].task.work.id, catch_panics(run))
       IN  /\ outbox' = r.outbox
           /\ tasks' = [tasks EXCEPT ![i].phase = "done", ![i].run = Some(run),
                                     ![i].responded = r.calls,
                                     ![i].observed = Some(state)]
    /\ UNCHANGED <<connected, clientVars, state>>

\* Second phase, on a lane: run_with_snapshot, which is handed the
\* state_snapshot moved into the continuation, inside catch_panics, then
\* respond.  The continuation holds no reference to the live State.
RunBackground(i, run) ==
    /\ i \in DOMAIN tasks
    /\ tasks[i].phase = "snapshotted"
    /\ LET r == respond(outbox, connected, tasks[i].task.work.id, catch_panics(run))
       IN  /\ outbox' = r.outbox
           /\ tasks' = [tasks EXCEPT ![i].phase = "done", ![i].run = Some(run),
                                     ![i].responded = r.calls,
                                     ![i].observed = tasks[i].snapshot]
    /\ UNCHANGED <<connected, clientVars, state>>

RouterNext ==
    \/ Close
    \/ \E method \in InboundMethods, params \in InboundParams : RouteRequest(method, params)
    \/ \E i \in 1..MaxInbound : ExecuteNothing(i)
    \/ \E i \in 1..MaxInbound : ExecuteImmediate(i)
    \/ \E i \in 1..MaxInbound, run \in HandlerRuns, writes \in BOOLEAN : ExecuteLocal(i, run, writes)
    \/ \E i \in 1..MaxInbound : SnapshotBackground(i)
    \/ \E i \in 1..MaxInbound, run \in HandlerRuns : RunBackground(i, run)

RouterSpec == Init /\ [][RouterNext]_vars

ClientNext ==
    \/ Close
    \/ \E R \in OutboundRequests, serializes \in BOOLEAN : Request(R, serializes)
    \/ \E response \in InboundResponses : PopResponse(response)

ClientSpec == Init /\ [][ClientNext]_vars

\* The whole Client (Notifier, Responder and Requester on one channel),
\* explored over fewer Requester calls.
\* An inbound Notification is read and routed by api::notification.
RouteNotification(method, params) ==
    /\ Len(tasks) < MaxInbound
    /\ SessionIdle
    /\ LET n == [method |-> method, params |-> params]
       IN  tasks' = Append(tasks, [message |-> "Notification",
                                   request |-> n, task |-> notification(n),
                                   phase |-> "routed", run |-> None,
                                   snapshot |-> None, observed |-> None,
                                   responded |-> <<>>])
    /\ UNCHANGED <<connected, outbox, clientVars, state>>

\* The closure of local_notification_task on the session context: N::run,
\* which may write the session state; an Err it returns is logged and the
\* responder handed to the closure is ignored.  A panic of N::run unwinds
\* out of the closure.
ExecuteLocalNotification(i, run, writes) ==
    /\ SessionTurn(i)
    /\ tasks[i].message = "Notification"
    /\ tasks[i].task.kind = "Local"
    /\ state' = IF writes THEN state + 1 ELSE state
    /\ Finish(i, IF run.panic THEN "faulted" ELSE "done", Some(run), <<>>)
    /\ UNCHANGED <<connected, outbox, clientVars>>

NotificationNext ==
    \/ Close
    \/ \E method \in InboundNotifications, params \in InboundParams :
          RouteNotification(method, params)
    \/ \E i \in 1..MaxInbound : ExecuteNothing(i)
    \/ \E i \in 1..MaxInbound, run \in HandlerRuns, writes \in BOOLEAN :
          ExecuteLocalNotification(i, run, writes)

NotificationSpec == Init /\ [][NotificationNext]_vars

ChannelRequest(R, serializes) ==
    /\ calls < MaxChannelCalls
    /\ RequestCall(R, serializes)

ChannelPopResponse(response) ==
    /\ pops < MaxChannelPops
    /\ PopResponseCall(response)

ChannelNext ==
    \/ Close
    \/ \E R \in OutboundRequests, serializes \in BOOLEAN : ChannelRequest(R, serializes)
    \/ \E response \in InboundResponses : ChannelPopResponse(response)
    \/ Notify
    \/ Respond(1, [ok |-> TRUE, value |-> "result"])

ChannelSpec == Init /\ [][ChannelNext]_vars

----------------------------------------------------------------------------
(* Properties of the router.                                               *)

\* The Responses on the outbound channel that carry the given id.
ResponsesTo(id) ==
    SelectSeq(outbox, LAMBDA m : m.type = "Response" /\ m.id = id)

\* C1: every inbound Request, whatever its method and params, has exactly
\* one Response with its id on the outbound channel once its Task has been
\* executed (the channel being open), and never more than one.
C1_ExactlyOneResponse ==
    \A i \in DOMAIN tasks :
        /\ Len(ResponsesTo(tasks[i].request.id)) <= 1
        /\ (tasks[i].phase = "done" /\ connected) =>
              Len(ResponsesTo(tasks[i].request.id)) = 1

\* C2: a well-formed Request for a registered method is routed to a Local
\* Task (execute-command) or a Background Task (the others) whose execution
\* calls respond exactly once, with the Request's id, whether the handler
\* returned Ok or Err or a Background handler panicked, and whether or not
\* the send succeeded.
C2_RespondOnceWithOriginalId ==
    \A i \in DOMAIN tasks :
        LET t == tasks[i]
        IN  (t.request.method \in RequestMethods /\ t.request.params = "wellformed") =>
              /\ t.task.kind = IF t.request.method = ExecuteCommand_METHOD
                                THEN "Local" ELSE "Background"
              /\ Len(t.responded) <= 1
              /\ t.phase = "done" =>
                    (Len(t.responded) = 1 /\ t.responded[1].id = t.request.id)

C2_Witness ==
    \E i \in DOMAIN tasks :
        /\ tasks[i].request.params = "wellformed"
        /\ tasks[i].task.kind = "Background"
        /\ tasks[i].phase = "done"
        /\ tasks[i].run = Some([panic |-> TRUE])
        /\ ~connected
        /\ Len(tasks[i].responded) = 1

\* C3: a Request whose method no arm of `request` matches, including a
\* registered name in another case and a notification-only name, is routed
\* to Nothing; respond is never called for it and no outbound message
\* carries its id.
C3_UnregisteredIsNothing ==
    \A i \in DOMAIN tasks :
        tasks[i].request.method \notin RequestMethods =>
            /\ tasks[i].task = Task_nothing
            /\ tasks[i].responded = <<>>
            /\ tasks[i].run = None
            /\ ResponsesTo(tasks[i].request.id) = <<>>

C3_Witness ==
    \E i, j \in DOMAIN tasks :
        /\ tasks[i].request.method = "textDocument/Hover"
        /\ tasks[j].request.method = "textDocument/didOpen"
        /\ tasks[i].phase = "done"
        /\ tasks[j].phase = "done"
        /\ connected

\* C4: a Request for a registered method whose params do not decode is
\* routed to an Immediate Task holding an internal-error failure for the
\* Request's id; no handler runs, and executing the Task calls respond once
\* and puts exactly one error Response with that id and code on the open
\* channel.
C4_DecodeFailureIsImmediate ==
    \A i \in DOMAIN tasks :
        LET t == tasks[i]
            sent == ResponsesTo(t.request.id)
        IN  (t.request.method \in RequestMethods /\ t.request.params = "malformed") =>
              /\ t.task.kind = "Immediate"
              /\ t.task.id = t.request.id
              /\ ~t.task.result.ok
              /\ t.task.result.error.code = InternalError
              /\ t.run = None
              /\ t.phase \in {"routed", "done"}
              /\ t.phase = "done" =>
                    (Len(t.responded) = 1 /\ t.responded[1].id = t.request.id)
              /\ (t.phase = "done" /\ connected) =>
                    /\ Len(sent) = 1
                    /\ sent[1].result = None
                    /\ sent[1].error # None
                    /\ sent[1].error[1].code = InternalError

C4_Witness ==
    \E i \in DOMAIN tasks :
        /\ tasks[i].request.method = HoverRequest_METHOD
        /\ tasks[i].request.params = "malformed"
        /\ tasks[i].phase = "done"
        /\ Len(ResponsesTo(tasks[i].request.id)) = 1

\* C13: a panic of a Background handler's run_with_snapshot is caught in
\* the continuation: the Task still finishes, with exactly one respond call
\* for the Request's id carrying an error, and every Response sent for it
\* is an error Response.
C13_BackgroundPanicBecomesError ==
    \A i \in DOMAIN tasks :
        LET t == tasks[i]
        IN  t.task.kind = "Background" =>
              /\ t.phase # "faulted"
              /\ t.run = Some([panic |-> TRUE]) =>
                    /\ t.phase = "done"
                    /\ Len(t.responded) = 1
                    /\ t.responded[1].id = t.request.id
                    /\ ~t.responded[1].result.ok
                    /\ \A k \in DOMAIN ResponsesTo(t.request.id) :
                          ResponsesTo(t.request.id)[k].error # None

C13_Witness ==
    \E i \in DOMAIN tasks :
        /\ tasks[i].task.kind = "Background"
        /\ tasks[i].run = Some([panic |-> TRUE])
        /\ tasks[i].phase = "done"
        /\ Len(ResponsesTo(tasks[i].request.id)) = 1

\* C14: no Task ends in an uncaught fault of the context executing it,
\* whatever its variant and whether its handler returns an error or panics.
C14_NoFaultPastDispatch ==
    \A i \in DOMAIN tasks : tasks[i].phase # "faulted"

\* C15: the snapshot of a Background Task is the session state at the
\* moment its snapshot function ran, later writes of Local Tasks do not
\* change it, the continuation is handed exactly that snapshot, and the
\* continuation does not write the live state.
C15_SnapshotIsolation ==
    [][\A i \in DOMAIN tasks :
          /\ (tasks[i].phase = "routed" /\ tasks'[i].phase = "snapshotted") =>
                tasks'[i].snapshot = Some(state)
          /\ tasks[i].phase = "snapshotted" =>
                tasks'[i].snapshot = tasks[i].snapshot
          /\ (tasks[i].phase = "snapshotted" /\ tasks'[i].phase # "snapshotted") =>
                (tasks'[i].observed = tasks[i].snapshot /\ state' = state)]_vars

C15_Witness ==
    \E i \in DOMAIN tasks :
        /\ tasks[i].task.kind = "Background"
        /\ tasks[i].phase = "done"
        /\ tasks[i].observed # None
        /\ tasks[i].observed[1] < state

\* The regime C18 gives each registered method.
ClaimedRegime(method) ==
    IF method = Formatting_METHOD
    THEN [kind |-> "Background", schedule |-> "Fmt"]
    ELSE IF method \in {CodeActionRequest_METHOD, Completion_METHOD,
                        GotoDefinition_METHOD, HoverRequest_METHOD,
                        ProvideVirtualFile_METHOD}
    THEN [kind |-> "Background", schedule |-> "LatencySensitive"]
    ELSE IF method \in {SemanticTokensFullRequest_METHOD, ExpandMacro_METHOD,
                        ViewAnalyzedCrates_METHOD}
    THEN [kind |-> "Background", schedule |-> "Worker"]
    ELSE [kind |-> "Local", schedule |-> "none"]

Regime(task) ==
    [kind |-> task.kind,
     schedule |-> IF task.kind = "Background" THEN task.schedule ELSE "none"]

\* C18: a well-formed Request for a registered method is routed to the
\* regime fixed for its method: Background/Fmt for formatting only,
\* Background/LatencySensitive for code-action, completion, definition,
\* hover and provide-virtual-file, Background/Worker for semantic-tokens,
\* expand-macro and view-analyzed-crates, Local for execute-command only;
\* two such Requests for the same method get the same regime.
C18_RoutingTable ==
    \A i \in DOMAIN tasks :
        LET t == tasks[i]
        IN  (t.request.method \in RequestMethods /\ t.request.params = "wellformed") =>
              /\ Regime(t.task) = ClaimedRegime(t.request.method)
              /\ (t.task.kind = "Local") <=> (t.request.method = ExecuteCommand_METHOD)
              /\ \A j \in DOMAIN tasks :
                    (tasks[j].request.method = t.request.method
                       /\ tasks[j].request.params = "wellformed") =>
                        Regime(tasks[j].task) = Regime(t.task)

C18_Witness ==
    \E i, j \in DOMAIN tasks :
        /\ tasks[i].request.method = Formatting_METHOD
        /\ tasks[i].task.kind = "Background"
        /\ tasks[i].task.schedule = "Fmt"
        /\ tasks[j].request.method = ExecuteCommand_METHOD
        /\ tasks[j].task.kind = "Local"

\* C16: a Notification is routed to Nothing when its method has no handler
\* or its params do not decode, and to a Local Task otherwise, never to a
\* Background or Immediate Task; its Task makes no respond call, also when
\* the handler returned an error, and no Response is put on the channel.
C16_NotificationNeverResponds ==
    /\ \A i \in DOMAIN tasks :
          LET t == tasks[i]
          IN  t.message = "Notification" =>
                /\ IF t.request.method \in NotificationMethods
                        /\ t.request.params = "wellformed"
                   THEN t.task.kind = "Local"
                   ELSE t.task = Task_nothing
                /\ t.task.kind \notin {"Background", "Immediate"}
                /\ t.responded = <<>>
    /\ \A k \in DOMAIN outbox : outbox[k].type # "Response"

C16_Witness ==
    \E i \in DOMAIN tasks :
        /\ tasks[i].message = "Notification"
        /\ tasks[i].task.kind = "Local"
        /\ tasks[i].phase = "done"
        /\ tasks[i].run # None
        /\ ~tasks[i].run[1].result.ok
        /\ connected
        /\ outbox = <<>>

----------------------------------------------------------------------------
(* Properties of the Requester.                                            *)

\* The ids of the Requests on the outbound channel, in sending order.
SentRequestIds ==
    LET reqs == SelectSeq(outbox, LAMBDA m : m.type = "Request")
    IN  [i \in 1..Len(reqs) |-> reqs[i].id]

IsPopStep == pops' = pops + 1

\* C5: on a fresh Client, whatever request and pop_response_task calls are
\* made and whichever of them fail, the i-th Request actually sent on the
\* outbound channel carries id i (1, 2, 3, ... without gaps or repeats).
C5_SentIdsSequential ==
    \A i \in DOMAIN SentRequestIds : SentRequestIds[i] = i

C5_Witness ==
    /\ Len(SentRequestIds) >= 2
    /\ calls > Len(SentRequestIds)
    /\ pops > 0

\* C6: a registered handler is never replaced by a later request call, and
\* it leaves the table only when a Response with its id is consumed.
C6_NeverReusedWhilePending ==
    [][\A id \in DOMAIN response_handlers :
          /\ id \in DOMAIN response_handlers' =>
                response_handlers'[id] = response_handlers[id]
          /\ id \notin DOMAIN response_handlers' =>
                (IsPopStep /\ lastCall'.response.id = id)]_vars

\* C7: pop_response_task for an id without a registered handler returns
\* Nothing, runs no continuation and leaves the handler table and
\* next_request_id as they were.
C7_UnknownIdIsNoop ==
    [][(IsPopStep /\ lastCall'.response.id \notin DOMAIN response_handlers) =>
          /\ lastCall'.found = FALSE
          /\ lastCall'.task = Task_nothing
          /\ lastCall'.invocations = <<>>
          /\ invoked' = invoked
          /\ response_handlers' = response_handlers
          /\ next_request_id' = next_request_id]_vars

C7_Witness ==
    /\ lastCall.op = "pop"
    /\ ~lastCall.found
    /\ DOMAIN response_handlers # {}

\* C8: pop_response_task removes the handler of the Response's id whatever
\* the Response carries, a Response with the same id right after it finds no
\* handler, and no continuation is ever invoked more than once.
C8_HandlerConsumedOnce ==
    /\ [](\A c \in DOMAIN invoked : invoked[c] <= 1)
    /\ [][IsPopStep =>
            /\ lastCall'.response.id \notin DOMAIN response_handlers'
            /\ (lastCall.op = "pop" /\ lastCall.response.id = lastCall'.response.id) =>
                  (~lastCall'.found /\ lastCall'.task = Task_nothing
                                   /\ lastCall'.invocations = <<>>)]_vars

C8_Witness ==
    /\ lastCall.op = "pop"
    /\ ~lastCall.found
    /\ lastCall.response.id < next_request_id
    /\ \E c \in DOMAIN invoked : invoked[c] = 1

\* The condition under which C9 says the continuation of handler h runs.
ShouldInvoke(h, response) ==
    /\ response.error = None
    /\ \/ response.result # None /\ from_value(h.R, response.result[1]).ok
       \/ response.result = None /\ ResultIsUnit(h.R)

\* C9: for a Response whose id has a registered handler, the continuation
\* is invoked (once) exactly when the Response has no error and either a
\* result that deserializes or no result with a unit result type; when it
\* is not invoked the Task returned is Nothing.
C9_InvokedIffUsableResult ==
    [][(IsPopStep /\ lastCall'.response.id \in DOMAIN response_handlers) =>
          LET h == response_handlers[lastCall'.response.id]
          IN  /\ lastCall'.found
              /\ ShouldInvoke(h, lastCall'.response) <=>
                    (Len(lastCall'.invocations) = 1 /\ lastCall'.invocations[1].cont = h.cont)
              /\ ~ShouldInvoke(h, lastCall'.response) =>
                    (lastCall'.invocations = <<>> /\ lastCall'.task = Task_nothing)]_vars

C9_Witness ==
    /\ lastCall.op = "pop"
    /\ lastCall.found
    /\ lastCall.response.error # None
    /\ lastCall.response.result # None
    /\ lastCall.invocations = <<>>
    /\ lastCall.task = Task_nothing

\* C10: whenever pop_response_task invokes the continuation, the Task it
\* returns is the Task the continuation produced.
C10_ReturnsContinuationTask ==
    (lastCall.op = "pop" /\ lastCall.invocations # <<>>) =>
        lastCall.task = lastCall.invocations[1].produced

\* C11: Responses are matched by id alone: a handler sits under the id its
\* request call used, no continuation sits under two ids, and a Response, in
\* whatever order Responses arrive, invokes only the continuation registered
\* under its id and leaves the handlers of all other ids as they were.
C11_MatchedById ==
    /\ [](\A i \in DOMAIN response_handlers :
            /\ response_handlers[i].id = i
            /\ \A j \in DOMAIN response_handlers :
                  i # j => response_handlers[i].cont # response_handlers[j].cont)
    /\ [][IsPopStep =>
            LET id == lastCall'.response.id
            IN  /\ \A c \in DOMAIN invoked :
                      invoked'[c] # invoked[c] =>
                          (id \in DOMAIN response_handlers
                             /\ response_handlers[id].cont = c)
                /\ \A k \in DOMAIN lastCall'.invocations :
                      (id \in DOMAIN response_handlers
                         /\ lastCall'.invocations[k].cont = response_handlers[id].cont)
                /\ \A other \in DOMAIN response_handlers \ {id} :
                      (other \in DOMAIN response_handlers'
                         /\ response_handlers'[other] = response_handlers[other])]_vars

C11_Witness ==
    /\ lastCall.op = "pop"
    /\ lastCall.response.id = 2
    /\ lastCall.invocations # <<>>
    /\ lastCall.invocations[1].cont = 2
    /\ {1, 3} \subseteq DOMAIN response_handlers

\* C12: a continuation runs only in a pop_response_task step whose Response
\* carries the id the continuation is registered under; request (which only
\* stores it), notify and respond never run one.
C12_ContinuationOnlyAfterResponse ==
    [][\A c \in DOMAIN invoked :
          invoked'[c] # invoked[c] =>
              /\ IsPopStep
              /\ lastCall'.response.id \in DOMAIN response_handlers
              /\ response_handlers[lastCall'.response.id].cont = c
              /\ response_handlers[lastCall'.response.id].id = lastCall'.response.id]_vars

C12_Witness ==
    /\ lastCall.op = "pop"
    /\ lastCall.invocations # <<>>
    /\ sends > 0
    /\ \E c \in DOMAIN invoked : invoked[c] = 1

IsNotifyStep == sends' = sends + 1 /\ lastCall'.op = "notify"

\* C17: notify on a closed channel hands the send failure back to its
\* caller and changes nothing of the Client: no handler is registered or
\* removed, next_request_id is unchanged and nothing is sent.
C17_NotifyOnClosedChannel ==
    [][(IsNotifyStep /\ ~connected) =>
          /\ lastCall'.ret = "Err"
          /\ response_handlers' = response_handlers
          /\ next_request_id' = next_request_id
          /\ invoked' = invoked
          /\ outbox' = outbox]_vars

C17_Witness ==
    /\ lastCall.op = "notify"
    /\ lastCall.ret = "Err"
    /\ ~connected
    /\ DOMAIN response_handlers # {}

\* C19: a request call that returns an error leaves the Requester as it
\* was: no handler added or replaced, next_request_id unchanged.
C19_FailedRequestChangesNothing ==
    [][(calls' = calls + 1 /\ lastCall'.ret = "Err") =>
          /\ response_handlers' = response_handlers
          /\ next_request_id' = next_request_id]_vars

\* C20: every id with a registered handler is the id of a Request that was
\* sent: the registered ids lie in 1..next_request_id-1, and next_request_id
\* is 1 plus the number of Requests sent.
C20_RegisteredIdsWereSent ==
    /\ DOMAIN response_handlers \subseteq 1..(next_request_id - 1)
    /\ \A id \in DOMAIN response_handlers :
          \E i \in DOMAIN SentRequestIds : SentRequestIds[i] = id
    /\ next_request_id = 1 + Len(SentRequestIds)

====
